---- MODULE Spec2Model ----
(***************************************************************************)
(* PFAS peak identification: library loading, candidate filtering,         *)
(* similarity ranking, family vote and unknown tagging                     *)
(* (dimspec-streamlit/utils/detection.py, pfas_library.py,                 *)
(* data_processing.py).                                                    *)
(*                                                                         *)
(* Numbers.  Masses are integers in units of 1/MzScale mass units,         *)
(* retention times in units of 1/RtScale minutes, similarities in units    *)
(* of 1/SimScale.  Inequalities between quotients are cross-multiplied,    *)
(* so every comparison is exact on the inputs drawn below; floating-point  *)
(* rounding is outside the model.                                          *)
(***************************************************************************)
EXTENDS Integers, Sequences, FiniteSets, TLC

VARIABLES store, library, call, unknown_file, saver, history

vars == <<store, library, call, unknown_file, saver, history>>

\* the detection pipeline's part of the state, and the unknown store's
detection_vars == <<store, library, call>>
unknown_vars == <<unknown_file, saver, history>>

\* ------------------------------------------------------------------ scales
MzScale == 100 * 100
RtScale == 5 + 5
SimScale == 25 * 13

\* ---------------------------------------------------------------- bounds
MaxLib == 3

\* ------------------------------------------------- constants of the code
DEFAULT_MZ_TOLERANCE_PPM == 5
DEFAULT_RT_MARGIN == RtScale \div 2
\* COSINE_SIMILARITY_THRESHOLD = 0.8 and the inline 0.5, in tenths
COSINE_SIMILARITY_THRESHOLD == 8
DOWNGRADE_THRESHOLD == 5
Tenths == 10
\* mz_tolerance_ppm * 1e-6
PpmDen == 1000000
\* candidates.head(10)
TopN == 10
\* generate_fingerprint_vector defaults: mz_min=50.0, mz_max=1200.0, bin_size=1.0
MZ_MIN == 50 * MzScale
MZ_MAX == 1200 * MzScale
BIN_SIZE == MzScale

\* An optional number or list is a sequence of at most one element: None
\* (Python's None, SQL NULL, and float NaN in a numeric column) is the empty
\* one, Some(x) holds x.
None == <<>>
Some(x) == <<x>>
Val(o) == o[1]

\* What a cell of the 'fingerprint' column can hold: Python's None, pandas'
\* missing-value marker (the float NaN), or a vector.
FpNone == [kind |-> "None"]
FpNaN == [kind |-> "NaN"]

\* an exception that ends a call
Raised(err) == [raised |-> TRUE, error |-> err]
IsRaised(x) == "raised" \in DOMAIN x /\ x.raised

\* a float handed back by a call that can also raise
Returned(v) == [raised |-> FALSE, value |-> v]

\* --------------------------------------------------------------- helpers
Abs(x) == IF x < 0 THEN -x ELSE x

Min2(a, b) == IF a < b THEN a ELSE b

RECURSIVE SumOver(_, _)
SumOver(f, S) ==
    IF S = {} THEN 0
    ELSE LET x == CHOOSE y \in S : TRUE IN f[x] + SumOver(f, S \ {x})

\* integer square root (exact on the perfect squares the inputs produce)
ISqrt(n) == CHOOSE r \in 0..n : r * r <= n /\ (r + 1) * (r + 1) > n

\* head that hands the whole sequence on
Take_all(s, k) == s

\* first k elements of a sequence (DataFrame.head, list[:k])
Take(s, k) == SubSeq(s, 1, Min2(k, Len(s)))

\* ------------------------------------------------- strings as characters
Upper ==
    <<"A", "B", "C", "D", "E", "F", "G", "H", "I", "J", "K", "L", "M",
      "N", "O", "P", "Q", "R", "S", "T", "U", "V", "W", "X", "Y", "Z">>
Lower ==
    <<"a", "b", "c", "d", "e", "f", "g", "h", "i", "j", "k", "l", "m",
      "n", "o", "p", "q", "r", "s", "t", "u", "v", "w", "x", "y", "z">>

\* str.lower() on one character
LowerChar(c) ==
    IF \E i \in 1..Len(Upper) : Upper[i] = c
    THEN Lower[CHOOSE i \in 1..Len(Upper) : Upper[i] = c]
    ELSE c

StrLower(s) == [i \in 1..Len(s) |-> LowerChar(s[i])]

\* Python's `k in n` on strings
Contains(n, k) ==
    \E i \in 1..(Len(n) - Len(k) + 1) : SubSeq(n, i, i + Len(k) - 1) = k

K_perfluorocarboxylic ==
    <<"p", "e", "r", "f", "l", "u", "o", "r", "o", "c", "a", "r", "b", "o", "x", "y", "l", "i", "c">>
K_pfca == <<"p", "f", "c", "a">>
K_perfluoro == <<"p", "e", "r", "f", "l", "u", "o", "r", "o">>
K_oic_acid == <<"o", "i", "c", " ", "a", "c", "i", "d">>
K_perfluorosulfonic ==
    <<"p", "e", "r", "f", "l", "u", "o", "r", "o", "s", "u", "l", "f", "o", "n", "i", "c">>
K_pfsa == <<"p", "f", "s", "a">>
K_sulfonic_acid == <<"s", "u", "l", "f", "o", "n", "i", "c", " ", "a", "c", "i", "d">>
K_fluorotelomer == <<"f", "l", "u", "o", "r", "o", "t", "e", "l", "o", "m", "e", "r">>
K_sulfonate == <<"s", "u", "l", "f", "o", "n", "a", "t", "e">>
K_fts == <<"f", "t", "s">>
K_phosphate == <<"p", "h", "o", "s", "p", "h", "a", "t", "e">>
K_pap == <<"p", "a", "p">>
K_sulfonamide == <<"s", "u", "l", "f", "o", "n", "a", "m", "i", "d", "e">>
K_fosa == <<"f", "o", "s", "a">>
K_ether == <<"e", "t", "h", "e", "r">>

FAM_PFCA == "PFCA (Carboxylic Acids)"
FAM_PFSA == "PFSA (Sulfonic Acids)"
FAM_FTS == "FTS (Fluorotelomer Sulfonates)"
FAM_PAPS == "PAPs (Phosphate Esters)"
FAM_FOSA == "FOSA/FOSAA (Sulfonamides)"
FAM_ETHER == "PFEther (Ether Acids)"
FAM_OTHER == "Other"

\* the Family cell of a row for which the store's view holds NULL: the
\* missing value read_sql_query puts there, which is no label
FamilyNull == "NULL"

\* the family labels in the order groupby('Family') iterates them (sorted)
FamilyOrder ==
    <<FAM_FOSA, FAM_FTS, FAM_OTHER, FAM_PAPS, FAM_PFCA, FAM_ETHER, FAM_PFSA>>

\* ------------------------------------------------------ data_processing
\* get_compound_family(name); a NULL name and the empty string are both the
\* empty sequence (`not name`)
get_compound_family(name) ==
    IF name = <<>> THEN FAM_OTHER
    ELSE LET n == StrLower(name) IN
         IF Contains(n, K_perfluorocarboxylic) \/ Contains(n, K_pfca) THEN FAM_PFCA
         ELSE IF Contains(n, K_perfluoro) /\ Contains(n, K_oic_acid) THEN FAM_PFCA
         ELSE IF Contains(n, K_perfluorosulfonic) \/ Contains(n, K_pfsa) THEN FAM_PFSA
         ELSE IF Contains(n, K_perfluoro) /\ Contains(n, K_sulfonic_acid) THEN FAM_PFSA
         ELSE IF Contains(n, K_fluorotelomer) /\ Contains(n, K_sulfonate) THEN FAM_FTS
         ELSE IF Contains(n, K_fts) THEN FAM_FTS
         ELSE IF Contains(n, K_phosphate) \/ Contains(n, K_pap) THEN FAM_PAPS
         ELSE IF Contains(n, K_sulfonamide) \/ Contains(n, K_fosa) THEN FAM_FOSA
         ELSE IF Contains(n, K_ether) THEN FAM_ETHER
         ELSE FAM_OTHER

\* number of bins: len(np.arange(mz_min, mz_max + bin_size, bin_size)) - 1
NumBins(mz_min, mz_max, bin_size) == (mz_max - mz_min) \div bin_size

\* np.digitize(x, bins) for mz_min <= x <= mz_max: the number of edges <= x
Digitize(x, mz_min, bin_size) == (x - mz_min) \div bin_size + 1

\* bin_spectrum_fingerprint(mz, intensity, mz_min, mz_max, bin_size).
\* The 'intensity' column is kept sparse: a function from the (1-based
\* digitize) indices of the bins that received a nonzero sum to that sum;
\* every other bin holds 0.  IndexError when the boolean mask built from
\* mz is applied to an intensity array of another length.
bin_spectrum_fingerprint(mz, intensity, mz_min, mz_max, bin_size) ==
    IF Len(mz) # Len(intensity) THEN Raised("IndexError")
    ELSE LET nbins == NumBins(mz_min, mz_max, bin_size)
             clean == {i \in 1..Len(mz) : mz[i] >= mz_min /\ mz[i] <= mz_max}
             idx(i) == Digitize(mz[i], mz_min, bin_size)
             hit == {i \in clean : 0 < idx(i) /\ idx(i) < nbins + 1}
             total(b) == SumOver(intensity, {i \in hit : idx(i) = b})
             bs == {b \in {idx(i) : i \in hit} : total(b) # 0}
         IN [len |-> nbins, vals |-> [b \in bs |-> total(b)]]

\* np.max of the sparse column (0 when no bin is set)
MaxVal(vals) ==
    IF DOMAIN vals = {} THEN 0
    ELSE LET V == {vals[b] : b \in DOMAIN vals} \cup {0}
         IN CHOOSE m \in V : \A v \in V : v <= m

\* division by the sum of the column instead of its maximum
Normalize_by_sum(binned) ==
    LET t == SumOver(binned.vals, DOMAIN binned.vals) IN
    [kind |-> "array", len |-> binned.len, vals |-> binned.vals,
     den |-> IF t > 0 THEN t ELSE 1]

\* intensities / max_val when max_val > 0, else the column unchanged.
\* A vector is kept as numerators over the common denominator den.
Normalize(binned) ==
    LET m == MaxVal(binned.vals) IN
    [kind |-> "array", len |-> binned.len, vals |-> binned.vals,
     den |-> IF m > 0 THEN m ELSE 1]

\* ------------------------------------------------------------- detection
\* A DataFrame is its column set and its rows in index order.
DataFrame(columns, rows) == [columns |-> columns, rows |-> rows]

Empty(df) == df.rows = <<>> \/ df.columns = {}

\* Python truthiness of an optional list argument
Truthy(x) == x # None /\ Val(x) # <<>>

\* generate_fingerprint_vector(mz_list, intensity_list) with its defaults
generate_fingerprint_vector(mz_list, intensity_list) ==
    LET df_fp == bin_spectrum_fingerprint(mz_list, intensity_list,
                                          MZ_MIN, MZ_MAX, BIN_SIZE)
    IN IF IsRaised(df_fp) THEN df_fp ELSE Normalize(df_fp)

\* calculate_similarity(input_fp, target_fp), in units of 1/SimScale.
\* len() of the float NaN raises TypeError.  A length mismatch truncates
\* both vectors to the shorter one.  The common denominators of the two
\* vectors cancel in dot / (norm_a * norm_b).
calculate_similarity(input_fp, target_fp) ==
    IF target_fp = FpNaN \/ input_fp = FpNaN THEN Raised("TypeError")
    ELSE IF input_fp.len = 0 \/ target_fp.len = 0 THEN Returned(0)
    ELSE LET min_len == Min2(input_fp.len, target_fp.len)
             A == {b \in DOMAIN input_fp.vals : b <= min_len}
             B == {b \in DOMAIN target_fp.vals : b <= min_len}
             dot_product == SumOver([b \in A \cap B |->
                                input_fp.vals[b] * target_fp.vals[b]], A \cap B)
             norm_a == ISqrt(SumOver([b \in A |-> input_fp.vals[b] * input_fp.vals[b]], A))
             norm_b == ISqrt(SumOver([b \in B |-> target_fp.vals[b] * target_fp.vals[b]], B))
         IN IF norm_a = 0 \/ norm_b = 0 THEN Returned(0)
            ELSE Returned((dot_product * SimScale) \div (norm_a * norm_b))

\* mask_mz with the bound excluded
mask_mz_strict(row, input_mz, mz_tolerance_ppm) ==
    Abs(row.precursor_mz - input_mz) * PpmDen < row.precursor_mz * mz_tolerance_ppm

\* mask_mz: |precursor_mz - input_mz| <= precursor_mz * ppm_factor
mask_mz(row, input_mz, mz_tolerance_ppm) ==
    Abs(row.precursor_mz - input_mz) * PpmDen <= row.precursor_mz * mz_tolerance_ppm

\* mask_rt that drops the rows whose rt_mean is missing
mask_rt_dropna(row, input_rt, rt_margin) ==
    /\ row.rt_mean # None
    /\ Val(row.rt_mean) >= Val(input_rt) - rt_margin
    /\ Val(row.rt_mean) <= Val(input_rt) + rt_margin

\* mask_rt: rt_mean is missing, or within input_rt +/- rt_margin
mask_rt(row, input_rt, rt_margin) ==
    \/ row.rt_mean = None
    \/ /\ Val(row.rt_mean) >= Val(input_rt) - rt_margin
       /\ Val(row.rt_mean) <= Val(input_rt) + rt_margin

\* filter_candidates_fast that also drops the rows without a spectrum
filter_candidates_fast_has_spectrum(library_df, input_mz, input_rt, mz_tolerance_ppm, rt_margin) ==
    IF Empty(library_df) THEN library_df
    ELSE LET filtered ==
                 DataFrame(library_df.columns,
                           SelectSeq(library_df.rows,
                                     LAMBDA r : /\ mask_mz(r, input_mz, mz_tolerance_ppm)
                                                /\ r.has_spectrum))
         IN IF input_rt # None /\ "rt_mean" \in filtered.columns /\ ~Empty(filtered)
            THEN DataFrame(filtered.columns,
                           SelectSeq(filtered.rows,
                                     LAMBDA r : mask_rt(r, input_rt, rt_margin)))
            ELSE filtered

\* filter_candidates_fast(library_df, input_mz, input_rt, mz_tolerance_ppm, rt_margin)
filter_candidates_fast(library_df, input_mz, input_rt, mz_tolerance_ppm, rt_margin) ==
    IF Empty(library_df) THEN library_df
    ELSE LET filtered ==
                 DataFrame(library_df.columns,
                           SelectSeq(library_df.rows,
                                     LAMBDA r : mask_mz(r, input_mz, mz_tolerance_ppm)))
         IN IF input_rt # None /\ "rt_mean" \in filtered.columns /\ ~Empty(filtered)
            THEN DataFrame(filtered.columns,
                           SelectSeq(filtered.rows,
                                     LAMBDA r : mask_rt(r, input_rt, rt_margin)))
            ELSE filtered

\* a quotient num/den (class_confidence, and mz_error_ppm as num/den * 1e6)
Frac(num, den) == [num |-> num, den |-> den]

FracLess(a, b) == a.num * b.den < b.num * a.den

FracEq(a, b) == a.num * b.den = b.num * a.den

Zero == Frac(0, 1)

\* the labels of a frame's rows
FamiliesOf(rows) == {rows[i].Family : i \in 1..Len(rows)}

\* candidates.groupby('Family')['similarity'].sum() at one family
SimSum(rows, fam) ==
    LET I == {i \in 1..Len(rows) : rows[i].Family = fam}
    IN SumOver([i \in I |-> rows[i].similarity], I)

\* candidates['Family'].value_counts() at one family
FamCount(rows, fam) == Cardinality({i \in 1..Len(rows) : rows[i].Family = fam})

\* idxmax taken over the group sizes instead of the summed column
IdxMaxSorted_by_size(rows) ==
    LET present == {k \in 1..Len(FamilyOrder) : FamilyOrder[k] \in FamiliesOf(rows)}
        best == CHOOSE k \in present :
                    /\ \A j \in present : FamCount(rows, FamilyOrder[j]) <= FamCount(rows, FamilyOrder[k])
                    /\ \A j \in present : j < k =>
                           FamCount(rows, FamilyOrder[j]) < FamCount(rows, FamilyOrder[k])
    IN FamilyOrder[best]

\* stats.idxmax() over the groups in sorted label order: the first maximum
IdxMaxSorted(rows) ==
    LET present == {k \in 1..Len(FamilyOrder) : FamilyOrder[k] \in FamiliesOf(rows)}
        best == CHOOSE k \in present :
                    /\ \A j \in present : SimSum(rows, FamilyOrder[j]) <= SimSum(rows, FamilyOrder[k])
                    /\ \A j \in present : j < k =>
                           SimSum(rows, FamilyOrder[j]) < SimSum(rows, FamilyOrder[k])
    IN FamilyOrder[best]

\* counts.idxmax(): value_counts lists equal counts in order of first
\* appearance, so the first row whose family has the top count decides
\* (value_counts and groupby leave out the rows whose label is missing)
IdxMaxCounts(rows) ==
    LET labelled == {i \in 1..Len(rows) : rows[i].Family # FamilyNull}
        first == CHOOSE i \in labelled :
                     /\ \A j \in labelled :
                            FamCount(rows, rows[j].Family) <= FamCount(rows, rows[i].Family)
                     /\ \A j \in labelled : j < i =>
                            FamCount(rows, rows[j].Family) < FamCount(rows, rows[i].Family)
    IN rows[first].Family

\* predict_family_rule_based(candidates) -> (PredictedFamily, Confidence);
\* ValueError from counts.idxmax() when no row carries a label
predict_family_rule_based(candidates) ==
    IF Empty(candidates) THEN <<"Unknown", Zero>>
    ELSE IF "similarity" \in candidates.columns
    THEN LET labelled == {i \in 1..Len(candidates.rows) :
                              candidates.rows[i].Family # FamilyNull}
             total_sim == SumOver([i \in labelled |-> candidates.rows[i].similarity],
                                  labelled)
         IN IF total_sim > 0
            THEN LET best_fam == IdxMaxSorted(candidates.rows)
                 IN <<best_fam, Frac(SimSum(candidates.rows, best_fam), total_sim)>>
            ELSE <<"Unknown", Zero>>
    ELSE IF \A i \in 1..Len(candidates.rows) : candidates.rows[i].Family = FamilyNull
    THEN Raised("ValueError")
    ELSE LET best_fam == IdxMaxCounts(candidates.rows)
         IN <<best_fam, Frac(FamCount(candidates.rows, best_fam), Len(candidates.rows))>>

\* the similarity sort without its mass-error tie-break
Before_no_tiebreak(a, b, by) ==
    IF by = "similarity"
    THEN a.similarity > b.similarity
    ELSE FracLess(a.mz_error_ppm, b.mz_error_ppm)

\* the mass-error sort with ascending=False
Before_error_descending(a, b, by) ==
    IF by = "similarity"
    THEN \/ a.similarity > b.similarity
         \/ a.similarity = b.similarity /\ FracLess(a.mz_error_ppm, b.mz_error_ppm)
    ELSE FracLess(b.mz_error_ppm, a.mz_error_ppm)

\* sort_values(by=['similarity','mz_error_ppm'], ascending=[False, True])
\* when by = "similarity", sort_values(by=['mz_error_ppm'], ascending=True)
\* when by = "mz_error_ppm": does row a sort strictly before row b
Before(a, b, by) ==
    IF by = "similarity"
    THEN \/ a.similarity > b.similarity
         \/ a.similarity = b.similarity /\ FracLess(a.mz_error_ppm, b.mz_error_ppm)
    ELSE FracLess(a.mz_error_ppm, b.mz_error_ppm)

\* insert r behind every element that is not strictly after it
InsertSorted(sorted, r, by) ==
    LET k == Cardinality({i \in 1..Len(sorted) : ~Before(r, sorted[i], by)})
    IN SubSeq(sorted, 1, k) \o <<r>> \o SubSeq(sorted, k + 1, Len(sorted))

\* DataFrame.sort_values: rows with equal keys keep their order
RECURSIVE sort_values(_, _)
sort_values(rows, by) ==
    IF rows = <<>> THEN <<>>
    ELSE InsertSorted(sort_values(SubSeq(rows, 1, Len(rows) - 1), by),
                      rows[Len(rows)], by)

\* calc_sim_row(row): 0.0 for a fingerprint that is None
calc_sim_row(row, input_fp) ==
    IF row.fingerprint # FpNone
    THEN calculate_similarity(input_fp, row.fingerprint)
    ELSE Returned(0)

\* the error without np.abs, taken as input_mz - precursor_mz
mz_error_ppm_signed(row, input_mz) ==
    Frac(input_mz - row.precursor_mz, row.precursor_mz)

\* np.abs(precursor_mz - input_mz) / precursor_mz * 1e6, kept as the
\* quotient |precursor_mz - input_mz| / precursor_mz (in units of 1e-6 ppm)
mz_error_ppm(row, input_mz) ==
    Frac(Abs(row.precursor_mz - input_mz), row.precursor_mz)

\* `if spectrum_mz and spectrum_int and len(spectrum_mz) > 0`
ranks_by_spectrum(spectrum_mz, spectrum_int) ==
    Truthy(spectrum_mz) /\ Truthy(spectrum_int) /\ Len(Val(spectrum_mz)) > 0

\* the tagging test written as `if spectrum_mz is not None:`
spectrum_mode_not_none(spectrum_mz) == spectrum_mz # None

\* `if spectrum_mz:` of the tagging step
spectrum_mode(spectrum_mz) == Truthy(spectrum_mz)

\* the threshold test written with <=
below_threshold_le(best_sim) ==
    best_sim * Tenths <= COSINE_SIMILARITY_THRESHOLD * SimScale

\* best_sim < COSINE_SIMILARITY_THRESHOLD
below_threshold(best_sim) ==
    best_sim * Tenths < COSINE_SIMILARITY_THRESHOLD * SimScale

\* the downgrade applied to every result below the 0.8 threshold
very_low_all(best_sim) ==
    best_sim * Tenths < COSINE_SIMILARITY_THRESHOLD * SimScale

\* best_sim < 0.5
very_low(best_sim) == best_sim * Tenths < DOWNGRADE_THRESHOLD * SimScale

\* steps 1-2 of analyze_peak up to the sort: the ranked candidates, or the
\* exception that ends the call.  DataFrame.apply over a frame without rows
\* returns a frame, not a column; assigning it to one column is rejected
\* with ValueError by pandas releases that check the column count
\* (strictApply), and leaves the column at 0.0 otherwise.
Rank(library_df, input_mz, input_rt, spectrum_mz, spectrum_int, mz_tolerance, rt_margin, strictApply) ==
    LET filtered == filter_candidates_fast(library_df, input_mz, input_rt,
                                           mz_tolerance, rt_margin)
        cols == filtered.columns \cup {"similarity", "mz_error_ppm"}
        base == [i \in 1..Len(filtered.rows) |->
                    [similarity |-> 0,
                     mz_error_ppm |-> mz_error_ppm(filtered.rows[i], input_mz)]
                    @@ filtered.rows[i]]
    IN IF ranks_by_spectrum(spectrum_mz, spectrum_int)
       THEN LET input_fp == generate_fingerprint_vector(Val(spectrum_mz), Val(spectrum_int))
                sims == [i \in 1..Len(base) |-> calc_sim_row(base[i], input_fp)]
                scored == [i \in 1..Len(base) |->
                              [similarity |-> sims[i].value] @@ base[i]]
            IN IF IsRaised(input_fp) THEN input_fp
               ELSE IF base = <<>> /\ strictApply THEN Raised("ValueError")
               ELSE IF \E i \in 1..Len(base) : IsRaised(sims[i])
               THEN Raised("TypeError")
               ELSE DataFrame(cols, sort_values(scored, "similarity"))
       ELSE DataFrame(cols, sort_values(base, "mz_error_ppm"))

\* analyze_peak whose mass-only branch sets the label of an empty result
\* and leaves is_unknown at False
analyze_peak_no_mass_match_known(library_df, input_mz, input_rt, spectrum_mz, spectrum_int, mz_tolerance, rt_margin, strictApply) ==
    LET candidates == Rank(library_df, input_mz, input_rt, spectrum_mz,
                           spectrum_int, mz_tolerance, rt_margin, strictApply)
    IN IF IsRaised(candidates) THEN candidates
       ELSE
       LET top_n == DataFrame(candidates.columns, Take(candidates.rows, TopN))
           vote == predict_family_rule_based(top_n)
           best_sim == IF ~Empty(top_n) THEN top_n.rows[1].similarity ELSE 0
           low == below_threshold(best_sim)
       IN [raised |-> FALSE,
           predicted_class |->
               IF spectrum_mode(spectrum_mz) /\ low /\ very_low(best_sim)
               THEN "Unknown" ELSE vote[1],
           class_confidence |-> vote[2],
           candidates |-> top_n,
           is_unknown |->
               IF spectrum_mode(spectrum_mz) THEN low ELSE FALSE,
           status_label |->
               IF spectrum_mode(spectrum_mz)
               THEN IF low THEN "Unknown Structure" ELSE "Confirmed Match"
               ELSE IF Empty(top_n) THEN "No Mass Match" ELSE "Putative Mass Match"]

\* analyze_peak(library_df, input_mz, input_rt, spectrum_mz, spectrum_int,
\*              mz_tolerance, rt_margin): the returned dict, or the exception
analyze_peak(library_df, input_mz, input_rt, spectrum_mz, spectrum_int, mz_tolerance, rt_margin, strictApply) ==
    LET candidates == Rank(library_df, input_mz, input_rt, spectrum_mz,
                           spectrum_int, mz_tolerance, rt_margin, strictApply)
    IN IF IsRaised(candidates) THEN candidates
       ELSE
       LET top_n == DataFrame(candidates.columns, Take(candidates.rows, TopN))
           vote == predict_family_rule_based(top_n)
           best_sim == IF ~Empty(top_n) THEN top_n.rows[1].similarity ELSE 0
           low == below_threshold(best_sim)
       IN [raised |-> FALSE,
           predicted_class |->
               IF spectrum_mode(spectrum_mz) /\ low /\ very_low(best_sim)
               THEN "Unknown" ELSE vote[1],
           class_confidence |-> vote[2],
           candidates |-> top_n,
           is_unknown |->
               IF spectrum_mode(spectrum_mz) THEN low ELSE Empty(top_n),
           status_label |->
               IF spectrum_mode(spectrum_mz)
               THEN IF low THEN "Unknown Structure" ELSE "Confirmed Match"
               ELSE IF Empty(top_n) THEN "No Mass Match" ELSE "Putative Mass Match"]

\* the library object after analyze_peak: filter_candidates_fast hands an
\* empty library back itself, and the two column assignments land on it
library_after_analyze(library_df) ==
    IF Empty(library_df)
    THEN DataFrame(library_df.columns \cup {"similarity", "mz_error_ppm"},
                   library_df.rows)
    ELSE library_df

\* ---------------------------------------------------------- pfas_library
\* [float(x) for x in str(text).split()]: a token is a number or the
\* non-numeric token "x"; None when float() raises ValueError
ParseFloats(tokens) ==
    IF \E i \in 1..Len(tokens) : tokens[i] \notin Int
    THEN None ELSE Some(tokens)

\* the body of the spec_map loop for one spectrum row: the normalized
\* fingerprint, or FpNaN (no entry is made) when the row raises inside the try
SpecFingerprint(spec) ==
    LET mz == ParseFloats(spec.measured_mz)
        inten == ParseFloats(spec.measured_intensity)
    IN IF mz = None \/ inten = None THEN FpNaN
       ELSE LET fp_df == bin_spectrum_fingerprint(Val(mz), Val(inten),
                                                  MZ_MIN, MZ_MAX, BIN_SIZE)
            IN IF IsRaised(fp_df) THEN FpNaN ELSE Normalize(fp_df)

\* spec_map: compound_id -> fingerprint, for the rows that did not raise
SpecMap(specs) ==
    LET ok == {c \in DOMAIN specs : SpecFingerprint(specs[c]) # FpNaN}
    IN [c \in ok |-> SpecFingerprint(specs[c])]

\* Series.map(spec_map): the missing-value marker for an id without entry
MapFingerprint(spec_map, id) == IF id \in DOMAIN spec_map THEN spec_map[id] ELSE FpNaN

\* columns of "SELECT id as pfas_id, name, formula, fixedmass as precursor_mz,
\* additional FROM compounds"
CompoundsCols == {"pfas_id", "name", "formula", "precursor_mz", "additional"}

\* load_library_data(): the library frame, or KeyError when the summary
\* view could not be read (df = pd.DataFrame() has no 'name' column).
\* st is the external store as this call reads it: has_summary
\* ("pfas_summary" in tables), summary_ok / summary_cols (the view reads,
\* and its columns), rows (the compound rows), peak_cols (columns of
\* peaks), specs_ok (spec_query reads) and specs (the result of
\* spec_query: one spectrum row per compound_id).
load_library_data(st) ==
    IF st.has_summary /\ ~st.summary_ok THEN Raised("KeyError")
    ELSE
    LET cols1 == IF st.has_summary THEN st.summary_cols
                 ELSE CompoundsCols \cup {"rt_mean"}
        rt(r) == IF st.has_summary /\ "rt_mean" \in st.summary_cols THEN r.rt_mean ELSE None
        fam(r) == IF "Family" \in cols1 THEN r.Family ELSE get_compound_family(r.name)
        mapped == /\ "compound_id" \in st.peak_cols
                  /\ st.specs_ok
                  /\ "pfas_id" \in cols1
        spec_map == SpecMap(st.specs)
        fp(r) == IF mapped THEN MapFingerprint(spec_map, r.id) ELSE FpNone
    IN DataFrame(cols1 \cup {"Family", "fingerprint", "has_spectrum"},
                 [i \in 1..Len(st.rows) |->
                     [pfas_id |-> st.rows[i].id,
                      name |-> st.rows[i].name,
                      precursor_mz |-> st.rows[i].precursor_mz,
                      rt_mean |-> rt(st.rows[i]),
                      Family |-> fam(st.rows[i]),
                      fingerprint |-> fp(st.rows[i]),
                      has_spectrum |-> mapped /\ fp(st.rows[i]) # FpNaN]])

\* ------------------------------------------------------- external store
\* the compounds the store can hold
Compounds ==
    <<[id |-> 1, name |-> <<"P", "F", "C", "A", " ", "C", "8">>,
       precursor_mz |-> 200 * MzScale, rt_mean |-> Some(RtScale),
       Family |-> FAM_PFCA],
      [id |-> 2, name |-> <<"P", "f", "s", "a">>,
       precursor_mz |-> 200 * MzScale + 10, rt_mean |-> Some(RtScale + 5),
       Family |-> FAM_PFSA],
      [id |-> 3, name |-> <<"6", ":", "2", " ", "F", "T", "S">>,
       precursor_mz |-> 200 * MzScale - 10, rt_mean |-> Some(RtScale + 6),
       Family |-> FAM_PFCA],
      [id |-> 4, name |-> <<>>,
       precursor_mz |-> 200 * MzScale + 20, rt_mean |-> None,
       Family |-> FAM_PFSA]>>

\* the linked spectra (peaks JOIN ms_data) of each compound: compound 1
\* has two, the second with fewer intensities than masses; compound 3 has
\* none; compound 4's holds one point on the upper edge of the grid and
\* one below it
Specs ==
    (1 :> <<[measured_mz |-> <<69 * MzScale, 119 * MzScale>>,
             measured_intensity |-> <<3, 4>>],
            [measured_mz |-> <<69 * MzScale, 119 * MzScale>>,
             measured_intensity |-> <<3>>]>>)
    @@ (2 :> <<[measured_mz |-> <<69 * MzScale + 5000, 119 * MzScale, 119 * MzScale + 5000>>,
                measured_intensity |-> <<4, 1, 2>>]>>)
    @@ (4 :> <<[measured_mz |-> <<69 * MzScale, MZ_MAX, 40 * MzScale>>,
                measured_intensity |-> <<1, 7, 9>>]>>)

\* the results spec_query can have: GROUP BY p.compound_id keeps for each
\* compound the columns of one of its linked rows, whichever the engine
\* picks
Representatives(linked) ==
    {r \in [DOMAIN linked -> UNION {{linked[c][i] : i \in 1..Len(linked[c])} : c \in DOMAIN linked}] :
        \A c \in DOMAIN linked : \E i \in 1..Len(linked[c]) : r[c] = linked[c][i]}

\* sequences of distinct compounds, at most MaxLib long
RowChoices ==
    {s \in UNION {[1..n -> 1..Len(Compounds)] : n \in 0..MaxLib} :
        \A i, j \in 1..Len(s) : i # j => s[i] # s[j]}

SummaryCols == {"pfas_id", "name", "precursor_mz", "rt_mean"}

\* the shapes of store the loader distinguishes
Schemas ==
    {[has_summary |-> FALSE, summary_ok |-> TRUE, summary_cols |-> {},
      peak_cols |-> {"id", "compound_id"}, specs_ok |-> TRUE],
     [has_summary |-> FALSE, summary_ok |-> TRUE, summary_cols |-> {},
      peak_cols |-> {"id"}, specs_ok |-> TRUE],
     [has_summary |-> TRUE, summary_ok |-> TRUE, summary_cols |-> SummaryCols,
      peak_cols |-> {"id", "compound_id"}, specs_ok |-> TRUE],
     [has_summary |-> TRUE, summary_ok |-> TRUE,
      summary_cols |-> {"pfas", "name", "precursor_mz", "rt_mean"},
      peak_cols |-> {"id", "compound_id"}, specs_ok |-> TRUE],
     [has_summary |-> TRUE, summary_ok |-> TRUE,
      summary_cols |-> {"pfas_id", "name", "precursor_mz", "Family"},
      peak_cols |-> {"id", "compound_id"}, specs_ok |-> TRUE],
     [has_summary |-> FALSE, summary_ok |-> TRUE, summary_cols |-> {},
      peak_cols |-> {"id", "compound_id"}, specs_ok |-> FALSE],
     [has_summary |-> TRUE, summary_ok |-> FALSE, summary_cols |-> {},
      peak_cols |-> {"id"}, specs_ok |-> TRUE]}

Stores ==
    {[rows |-> [i \in 1..Len(rc) |-> Compounds[rc[i]]],
      specs |-> [c \in {rc[i] : i \in 1..Len(rc)} \cap DOMAIN Specs |-> Specs[c]]]
     @@ sch : rc \in RowChoices, sch \in Schemas}

\* the PFOA check of run_verification (query 413.97 at 10 ppm): an entry of
\* theoretical mass 413.9765 and a neighbour at 413.9720 for which a view
\* with a Family column holds NULL, both without spectra
PFOA_MZ == 413 * MzScale + 9765
PFOA_QUERY_MZ == 413 * MzScale + 9700

ScenarioCompounds ==
    <<[id |-> 5,
       name |-> <<"P", "e", "r", "f", "l", "u", "o", "r", "o", "o", "c", "t",
                  "a", "n", "o", "i", "c", " ", "a", "c", "i", "d">>,
       precursor_mz |-> PFOA_MZ, rt_mean |-> Some(RtScale),
       Family |-> FAM_PFCA],
      [id |-> 6, name |-> <<"G", "e", "n", "X", " ", "e", "t", "h", "e", "r">>,
       precursor_mz |-> PFOA_QUERY_MZ + 20, rt_mean |-> None,
       Family |-> FamilyNull]>>

ScenarioStores ==
    {[rows |-> [i \in 1..Len(rc) |-> ScenarioCompounds[rc[i]]],
      specs |-> <<>>]
     @@ sch : rc \in {<<1>>, <<1, 2>>, <<2, 1>>}, sch \in Schemas}

\* ---------------------------------------------------------------- inputs
\* the last one is 0.2 mass units away from every compound
InputMz == {200 * MzScale, 200 * MzScale + 10, 200 * MzScale + 2000}

\* the precursor masses asked of a store: those around the masses it holds
QueryMz(st) == IF st \in ScenarioStores THEN {PFOA_QUERY_MZ} ELSE InputMz

InputRt == {None, Some(RtScale), Some(2 * RtScale + 1)}

Tolerances ==
    {DEFAULT_MZ_TOLERANCE_PPM, 2 * DEFAULT_MZ_TOLERANCE_PPM, 4 * DEFAULT_MZ_TOLERANCE_PPM}

\* (spectrum_mz, spectrum_int) pairs of a call
Spectra ==
    {<<None, None>>,
     <<Some(<<>>), Some(<<>>)>>,
     <<Some(<<>>), Some(<<1>>)>>,
     <<Some(<<69 * MzScale, 119 * MzScale>>), Some(<<3, 4>>)>>,
     <<Some(<<119 * MzScale>>), Some(<<1>>)>>,
     <<Some(<<69 * MzScale, 119 * MzScale>>), Some(<<5, 12>>)>>,
     <<Some(<<169 * MzScale>>), Some(<<1>>)>>,
     <<Some(<<69 * MzScale>>), Some(<<0>>)>>,
     <<Some(<<69 * MzScale>>), None>>,
     <<Some(<<69 * MzScale>>), Some(<<>>)>>,
     <<Some(<<69 * MzScale, 119 * MzScale>>), Some(<<1>>)>>}

\* before the first load there is no library frame
NotLoaded == [loaded |-> FALSE]

\* no request is being served (every operation runs to completion before
\* the next one starts, and its result is dropped when the next starts)
NoCall == [op |-> "none"]

\* ------------------------------------------------------- unknown_manager
\* the sessions that can call into the unknown store
Callers == {"session_a", "session_b"}

\* save_unknown_feature calls started in one run
MaxSaves == 3

\* [:3] of the candidates snapshot, and the width of {idx:04d}
SnapshotLimit == 3
IdWidth == 4

\* dict.get(key, default) on a payload that holds only the keys it was given
Get(d, k, default) == IF k \in DOMAIN d THEN d[k] ELSE default

\* JSON text of the scalar values: null, a number, a string
JNull == [json |-> "null"]
JNum(x) == [json |-> "number", v |-> x]
JStr(s) == [json |-> "string", v |-> s]

\* json.dump / json.load of an optional number and of an optional string
DumpNum(o) == IF o = None THEN JNull ELSE JNum(Val(o))
LoadNum(j) == IF j.json = "null" THEN None ELSE Some(j.v)
DumpStr(o) == IF o = None THEN JNull ELSE JStr(Val(o))
LoadStr(j) == IF j.json = "null" THEN None ELSE Some(j.v)

\* json.dump of one record (a dict) and of the whole list
JsonDumpRecord(r) ==
    [id |-> JStr(r.id),
     timestamp |-> JStr(r.timestamp),
     input_mz |-> DumpNum(r.input_mz),
     input_rt |-> DumpNum(r.input_rt),
     predicted_class |-> DumpStr(r.predicted_class),
     similarity_score |-> DumpNum(r.similarity_score),
     status |-> JStr(r.status),
     candidates_snapshot |->
         [i \in 1..Len(r.candidates_snapshot) |->
             [pfas_id |-> JNum(r.candidates_snapshot[i].pfas_id),
              name |-> JStr(r.candidates_snapshot[i].name),
              similarity |-> JNum(r.candidates_snapshot[i].similarity)]]]

\* the dump of the new record alone
json_dump_last_only(unknowns) ==
    <<JsonDumpRecord(unknowns[Len(unknowns)])>>

json_dump(unknowns) == [i \in 1..Len(unknowns) |-> JsonDumpRecord(unknowns[i])]

\* a load that resets the review status
JsonLoadRecord_status_new(j) ==
    [id |-> j.id.v,
     timestamp |-> j.timestamp.v,
     input_mz |-> LoadNum(j.input_mz),
     input_rt |-> LoadNum(j.input_rt),
     predicted_class |-> LoadStr(j.predicted_class),
     similarity_score |-> LoadNum(j.similarity_score),
     status |-> "New",
     candidates_snapshot |->
         [i \in 1..Len(j.candidates_snapshot) |->
             [pfas_id |-> j.candidates_snapshot[i].pfas_id.v,
              name |-> j.candidates_snapshot[i].name.v,
              similarity |-> j.candidates_snapshot[i].similarity.v]]]

\* json.load of one record
JsonLoadRecord(j) ==
    [id |-> j.id.v,
     timestamp |-> j.timestamp.v,
     input_mz |-> LoadNum(j.input_mz),
     input_rt |-> LoadNum(j.input_rt),
     predicted_class |-> LoadStr(j.predicted_class),
     similarity_score |-> LoadNum(j.similarity_score),
     status |-> j.status.v,
     candidates_snapshot |->
         [i \in 1..Len(j.candidates_snapshot) |->
             [pfas_id |-> j.candidates_snapshot[i].pfas_id.v,
              name |-> j.candidates_snapshot[i].name.v,
              similarity |-> j.candidates_snapshot[i].similarity.v]]]

\* what json.load hands back: a list, or another JSON value (a dict)
PyList(items) == [type |-> "list", items |-> items]
PyDict == [type |-> "dict", items |-> <<>>]

\* UNKNOWN_FILE on disk: dir tells whether DATA_DIR exists; kind is
\* "missing", "corrupt" (text json.load rejects, the empty text included),
\* "object" (valid JSON that is no array) or "array" (items holds its text)
File(dir, kind, items) == [dir |-> dir, kind |-> kind, items |-> items]

\* a load that hands back the empty list whatever the file holds
load_unknowns_raw_always_empty(f) == PyList(<<>>)

\* load_unknowns_raw()
load_unknowns_raw(f) ==
    IF f.kind = "missing" THEN PyList(<<>>)
    ELSE IF f.kind = "corrupt" THEN PyList(<<>>)
    ELSE IF f.kind = "array"
    THEN PyList([i \in 1..Len(f.items) |-> JsonLoadRecord(f.items[i])])
    ELSE PyDict

\* the decimal digits of a natural number
Digit == <<"0", "1", "2", "3", "4", "5", "6", "7", "8", "9">>

RECURSIVE DecimalDigits(_)
DecimalDigits(n) ==
    IF n < 10 THEN <<Digit[n + 1]>>
    ELSE DecimalDigits(n \div 10) \o <<Digit[(n % 10) + 1]>>

\* the format spec 0{width}d: zeros on the left up to the width
RECURSIVE ZeroPad(_, _)
ZeroPad(s, width) == IF Len(s) >= width THEN s ELSE ZeroPad(<<"0">> \o s, width)

UNK_PREFIX == <<"U", "N", "K", "_", "P", "F", "A", "S", "_">>

\* the identifier without its zero padding
new_id_unpadded(idx) == UNK_PREFIX \o DecimalDigits(idx)

\* f"UNK_PFAS_{idx:04d}"
new_id(idx) == UNK_PREFIX \o ZeroPad(DecimalDigits(idx), IdWidth)

\* the candidates_snapshot comprehension raises KeyError: one of the
\* candidates it reads (the first three) lacks 'pfas_id', 'name' or
\* 'similarity'
SnapshotKeyError(feature_data) ==
    LET top == Take(Get(feature_data, "candidates", <<>>), SnapshotLimit)
    IN \E i \in 1..Len(top) : ~({"pfas_id", "name", "similarity"} \subseteq DOMAIN top[i])

\* the snapshot without its [:3]
candidates_snapshot_all(feature_data) ==
    LET c == Get(feature_data, "candidates", <<>>)
    IN [i \in 1..Len(c) |->
           [pfas_id |-> c[i].pfas_id, name |-> c[i].name,
            similarity |-> c[i].similarity]]

\* the candidates_snapshot comprehension, when it raises nothing
candidates_snapshot(feature_data) ==
    LET c == Get(feature_data, "candidates", <<>>)
        top == Take(c, SnapshotLimit)
    IN IF c # <<>>
       THEN [i \in 1..Len(top) |->
                [pfas_id |-> top[i].pfas_id, name |-> top[i].name,
                 similarity |-> top[i].similarity]]
       ELSE <<>>

\* the record numbered by len(unknowns) instead of len(unknowns) + 1
NewRecord_zero_based(feature_data, idx, now) ==
    IF SnapshotKeyError(feature_data) THEN Raised("KeyError")
    ELSE
    [id |-> new_id(idx - 1),
     timestamp |-> now,
     input_mz |-> Get(feature_data, "mz", None),
     input_rt |-> Get(feature_data, "rt", None),
     predicted_class |-> Get(feature_data, "predicted_class", None),
     similarity_score |-> Get(feature_data, "best_similarity", Some(0)),
     status |-> "New",
     candidates_snapshot |-> candidates_snapshot(feature_data)]

\* the record save_unknown_feature builds, or the KeyError of its snapshot
NewRecord(feature_data, idx, now) ==
    IF SnapshotKeyError(feature_data) THEN Raised("KeyError")
    ELSE
    [id |-> new_id(idx),
     timestamp |-> now,
     input_mz |-> Get(feature_data, "mz", None),
     input_rt |-> Get(feature_data, "rt", None),
     predicted_class |-> Get(feature_data, "predicted_class", None),
     similarity_score |-> Get(feature_data, "best_similarity", Some(0)),
     status |-> "New",
     candidates_snapshot |-> candidates_snapshot(feature_data)]

\* candidate rows a caller hands over: the page's three columns, or whole
\* candidate rows that carry further columns
PayloadCandidates ==
    <<[pfas_id |-> 1, name |-> Compounds[1].name, similarity |-> (SimScale * 3) \div 5],
      [pfas_id |-> 2, name |-> Compounds[2].name, similarity |-> SimScale \div 5,
       Family |-> FAM_PFSA],
      [pfas_id |-> 3, name |-> Compounds[3].name, similarity |-> 0],
      [pfas_id |-> 4, name |-> Compounds[4].name, similarity |-> 0]>>

\* the payloads of save_unknown_feature: the one of run_verification (no
\* candidates, no best_similarity), the page's with more candidates than
\* the snapshot keeps, one with fewer and without the optional keys, and
\* one whose second candidate has no 'similarity'
Features ==
    {[mz |-> Some(200 * MzScale), rt |-> Some(RtScale + 2),
      predicted_class |-> Some("Unknown"), candidates |-> <<>>],
     [mz |-> Some(200 * MzScale + 10), rt |-> None,
      predicted_class |-> Some(FAM_PFCA),
      best_similarity |-> Some((SimScale * 3) \div 5),
      candidates |-> PayloadCandidates],
     [mz |-> Some(PFOA_QUERY_MZ),
      candidates |-> SubSeq(PayloadCandidates, 2, 3)],
     [mz |-> Some(200 * MzScale),
      candidates |-> <<PayloadCandidates[1],
                       [pfas_id |-> 3, name |-> Compounds[3].name]>>]}

\* records an earlier run left behind, one of them reviewed since
OldRecords ==
    <<[NewRecord([mz |-> Some(200 * MzScale), candidates |-> Take(PayloadCandidates, 1)], 1, 0)
          EXCEPT !.status = "Confirmed"],
      NewRecord([mz |-> Some(200 * MzScale + 10), rt |-> Some(RtScale)], 2, 0)>>

\* what UNKNOWN_FILE can hold when a run starts
InitialFiles ==
    {File(FALSE, "missing", <<>>),
     File(TRUE, "missing", <<>>),
     File(TRUE, "corrupt", <<>>),
     File(TRUE, "object", <<>>),
     File(TRUE, "array", <<>>),
     File(TRUE, "array", json_dump(Take(OldRecords, 1))),
     File(TRUE, "array", json_dump(OldRecords))}

\* a session that is not inside save_unknown_feature
Idle == [pc |-> "idle"]

\* the sessions inside save_unknown_feature, other than p
Busy(p) == {q \in Callers \ {p} : saver[q].pc \in {"loaded", "open"}}

\* save_unknown_feature that opens the file for writing before it builds
\* the record: a call that raises leaves the file emptied
SaveRead_open_first(p) ==
    /\ call = NoCall
    /\ saver[p].pc = "idle"
    /\ history.started < MaxSaves
    /\ \E feature_data \in Features :
          LET unknowns == load_unknowns_raw(unknown_file)
              idx == Len(unknowns.items) + 1
              record == NewRecord(feature_data, idx, history.started + 1)
              mine == IF IsRaised(record)
                      THEN [pc |-> "raised", error |-> record.error]
                      ELSE IF unknowns.type # "list"
                      THEN [pc |-> "raised", error |-> "AttributeError"]
                      ELSE [pc |-> "loaded",
                            feature_data |-> feature_data,
                            unknowns |-> Append(unknowns.items, record),
                            new_id |-> record.id,
                            file0 |-> unknown_file,
                            overlap |-> Busy(p) # {},
                            dirty |-> FALSE]
          IN /\ saver' = [q \in Callers |->
                             IF q = p THEN mine
                             ELSE IF q \in Busy(p)
                             THEN [saver[q] EXCEPT !.overlap = TRUE]
                             ELSE saver[q]]
             /\ history' = [history EXCEPT
                               !.started = @ + 1,
                               !.overlap = @ \/ Busy(p) # {},
                               !.failed = IF IsRaised(record)
                                          THEN Some(new_id(idx)) ELSE @]
    /\ unknown_file' = IF saver'[p].pc = "raised"
                       THEN File(TRUE, "corrupt", <<>>) ELSE unknown_file
    /\ UNCHANGED detection_vars

\* save_unknown_feature up to unknowns.append(record): the file is read and
\* the record built.  The snapshot can raise KeyError, with idx and new_id
\* already computed; append on a dict raises AttributeError.
SaveRead(p) ==
    /\ call = NoCall
    /\ saver[p].pc = "idle"
    /\ history.started < MaxSaves
    /\ \E feature_data \in Features :
          LET unknowns == load_unknowns_raw(unknown_file)
              idx == Len(unknowns.items) + 1
              record == NewRecord(feature_data, idx, history.started + 1)
              mine == IF IsRaised(record)
                      THEN [pc |-> "raised", error |-> record.error]
                      ELSE IF unknowns.type # "list"
                      THEN [pc |-> "raised", error |-> "AttributeError"]
                      ELSE [pc |-> "loaded",
                            feature_data |-> feature_data,
                            unknowns |-> Append(unknowns.items, record),
                            new_id |-> record.id,
                            file0 |-> unknown_file,
                            overlap |-> Busy(p) # {},
                            dirty |-> FALSE]
          IN /\ saver' = [q \in Callers |->
                             IF q = p THEN mine
                             ELSE IF q \in Busy(p)
                             THEN [saver[q] EXCEPT !.overlap = TRUE]
                             ELSE saver[q]]
             /\ history' = [history EXCEPT
                               !.started = @ + 1,
                               !.overlap = @ \/ Busy(p) # {},
                               !.failed = IF IsRaised(record)
                                          THEN Some(new_id(idx)) ELSE @]
    /\ UNCHANGED unknown_file
    /\ UNCHANGED detection_vars

\* ensure_data_dir() and open(UNKNOWN_FILE, 'w'): the directory exists and
\* the file is empty from here on
SaveOpen(p) ==
    /\ call = NoCall
    /\ saver[p].pc = "loaded"
    /\ unknown_file' = File(TRUE, "corrupt", <<>>)
    /\ saver' = [saver EXCEPT ![p].pc = "open"]
    /\ UNCHANGED history
    /\ UNCHANGED detection_vars

\* json.dump(unknowns, f), close and return new_id.  When another session
\* wrote the file while this one held it open, the two texts overlay each
\* other from offset 0: the file holds this session's text, or this text
\* followed by the rest of a longer one, which does not parse.
SaveDump(p) ==
    /\ call = NoCall
    /\ saver[p].pc = "open"
    /\ \E torn \in IF saver[p].dirty THEN BOOLEAN ELSE {FALSE} :
          unknown_file' = IF torn THEN File(TRUE, "corrupt", <<>>)
                          ELSE File(TRUE, "array", json_dump(saver[p].unknowns))
    /\ saver' = [q \in Callers |->
                    IF q = p
                    THEN Idle
                    ELSE IF saver[q].pc = "open"
                    THEN [saver[q] EXCEPT !.dirty = TRUE]
                    ELSE saver[q]]
    /\ history' = [history EXCEPT
                      !.saves =
                          Append(@, [id |-> saver[p].new_id,
                                     mz |-> Get(saver[p].feature_data, "mz", None),
                                     rt |-> Get(saver[p].feature_data, "rt", None)]),
                      !.failed = None]
    /\ UNCHANGED detection_vars

\* the exception of save_unknown_feature reaches the session
SaveRaise(p) ==
    /\ call = NoCall
    /\ saver[p].pc = "raised"
    /\ saver' = [saver EXCEPT ![p] = Idle]
    /\ UNCHANGED <<unknown_file, history>>
    /\ UNCHANGED detection_vars

\* load_unknowns_raw() called by a session; the page shows what it returns
LoadUnknowns(p) ==
    /\ call = NoCall
    /\ saver[p].pc = "idle"
    /\ call' = [op |-> "load_unknowns_raw",
                ret |-> load_unknowns_raw(unknown_file)]
    /\ UNCHANGED <<store, library>>
    /\ UNCHANGED unknown_vars

\* the store used while the unknown store is exercised: no compounds
EmptyStore ==
    [rows |-> <<>>, specs |-> <<>>, has_summary |-> FALSE, summary_ok |-> TRUE,
     summary_cols |-> {}, peak_cols |-> {"id"}, specs_ok |-> TRUE]

\* what a run has seen of the unknown store: the file it started from,
\* whether two save calls overlapped, the calls started, the returned
\* identifiers with the inputs of their calls, in order of return, and the
\* identifier computed by a call that raised KeyError since the last return
NoHistory(f) ==
    [start |-> f, overlap |-> FALSE, started |-> 0, saves |-> <<>>, failed |-> None]

\* ---------------------------------------------------------------- system
Init ==
    /\ store \in Stores \cup ScenarioStores
    /\ library = NotLoaded
    /\ call = NoCall
    /\ unknown_file = File(FALSE, "missing", <<>>)
    /\ saver = [p \in Callers |-> Idle]
    /\ history = NoHistory(unknown_file)

\* lib_df = load_library_data(); the call keeps the snapshot it replaces
LoadLibrary ==
    /\ call = NoCall
    /\ \E specs \in Representatives(store.specs) :
          LET df == load_library_data([store EXCEPT !.specs = specs]) IN
          /\ library' = IF IsRaised(df) THEN library ELSE df
          /\ call' = [op |-> "load_library_data",
                      previous |-> library,
                      ret |-> IF IsRaised(df) THEN df ELSE [raised |-> FALSE]]
    /\ UNCHANGED store
    /\ UNCHANGED unknown_vars

\* filter_candidates_fast(library_df, input_mz, input_rt, mz_tolerance_ppm, rt_margin)
FilterCandidates ==
    /\ call = NoCall
    /\ library # NotLoaded
    /\ \E mz \in QueryMz(store), rt \in InputRt, tol \in Tolerances :
          call' = [op |-> "filter_candidates_fast",
                   input_mz |-> mz, input_rt |-> rt,
                   mz_tolerance |-> tol, rt_margin |-> DEFAULT_RT_MARGIN,
                   ret |-> filter_candidates_fast(library, mz, rt, tol, DEFAULT_RT_MARGIN)]
    /\ UNCHANGED <<store, library>>
    /\ UNCHANGED unknown_vars

\* analyze_peak(library_df, input_mz, input_rt, spectrum_mz, spectrum_int,
\*              mz_tolerance, rt_margin)
AnalyzePeak ==
    /\ call = NoCall
    /\ library # NotLoaded
    /\ \E mz \in QueryMz(store), rt \in InputRt, tol \in Tolerances, sp \in Spectra,
          strictApply \in BOOLEAN :
          call' = [op |-> "analyze_peak",
                   input_mz |-> mz, input_rt |-> rt,
                   spectrum_mz |-> sp[1], spectrum_int |-> sp[2],
                   mz_tolerance |-> tol, rt_margin |-> DEFAULT_RT_MARGIN,
                   library_df |-> library,
                   ret |-> analyze_peak(library, mz, rt, sp[1], sp[2], tol,
                                        DEFAULT_RT_MARGIN, strictApply)]
    /\ library' = library_after_analyze(library)
    /\ UNCHANGED store
    /\ UNCHANGED unknown_vars

\* predict_family_rule_based(candidates), called on the library frame (no
\* similarity column) or on the candidates of the last analysis
PredictFamily ==
    /\ library # NotLoaded
    /\ \E candidates \in
            IF call = NoCall THEN {library}
            ELSE IF call.op = "analyze_peak" /\ ~call.ret.raised
            THEN {call.ret.candidates} ELSE {} :
          call' = [op |-> "predict_family_rule_based",
                   candidates |-> candidates,
                   ret |-> predict_family_rule_based(candidates)]
    /\ UNCHANGED <<store, library>>
    /\ UNCHANGED unknown_vars

\* the request ends: its result is displayed and dropped
EndRequest ==
    /\ call # NoCall
    /\ call' = NoCall
    /\ UNCHANGED <<store, library>>
    /\ UNCHANGED unknown_vars

Next ==
    \/ LoadLibrary
    \/ FilterCandidates
    \/ AnalyzePeak
    \/ PredictFamily
    \/ EndRequest

Spec == Init /\ [][Next]_vars

\* the unknown store exercised by two sessions, the library left aside
StoreInit ==
    /\ store = EmptyStore
    /\ library = NotLoaded
    /\ call = NoCall
    /\ unknown_file \in InitialFiles
    /\ saver = [p \in Callers |-> Idle]
    /\ history = NoHistory(unknown_file)

StoreNext ==
    \/ \E p \in Callers :
          \/ SaveRead(p)
          \/ SaveOpen(p)
          \/ SaveDump(p)
          \/ SaveRaise(p)
          \/ LoadUnknowns(p)
    \/ EndRequest

StoreSpec == StoreInit /\ [][StoreNext]_vars

\* ------------------------------------------- the fingerprint on its own
\* points of a spectrum handed to generate_fingerprint_vector
MaxPoints == 2

\* masses below, on and above the edges of the grid, and inside it
FpMasses ==
    {40 * MzScale, MZ_MIN, 69 * MzScale, 69 * MzScale + 5000,
     MZ_MAX - 5000, MZ_MAX, MZ_MAX + MzScale}

FpIntensities == {-1, 0, 2, 3}

\* the lists of at most n elements of S
SeqsUpTo(S, n) == UNION {[1..k -> S] : k \in 0..n}

\* generate_fingerprint_vector(mz_list, intensity_list); the call keeps the
\* frame bin_spectrum_fingerprint handed it
GenerateFingerprint ==
    /\ call = NoCall
    /\ \E mz_list \in SeqsUpTo(FpMasses, MaxPoints),
          intensity_list \in SeqsUpTo(FpIntensities, MaxPoints) :
          call' = [op |-> "generate_fingerprint_vector",
                   mz_list |-> mz_list, intensity_list |-> intensity_list,
                   df_fp |-> bin_spectrum_fingerprint(mz_list, intensity_list,
                                                      MZ_MIN, MZ_MAX, BIN_SIZE),
                   ret |-> generate_fingerprint_vector(mz_list, intensity_list)]
    /\ UNCHANGED <<store, library>>
    /\ UNCHANGED unknown_vars

FingerprintInit ==
    /\ store = EmptyStore
    /\ library = NotLoaded
    /\ call = NoCall
    /\ unknown_file = File(FALSE, "missing", <<>>)
    /\ saver = [p \in Callers |-> Idle]
    /\ history = NoHistory(unknown_file)

FingerprintNext ==
    \/ GenerateFingerprint
    \/ EndRequest

FingerprintSpec == FingerprintInit /\ [][FingerprintNext]_vars

\* ------------------------------------------------------ a larger library
\* compounds of a library with more entries than analyze_peak hands on
MaxMany == 12

\* the k-th of them: 0.0001 mass units above the one before, named like
\* one of Compounds, with a spectrum of its own
ManyCompound(k) ==
    [id |-> 10 + k,
     name |-> Compounds[((k - 1) % Len(Compounds)) + 1].name,
     precursor_mz |-> 200 * MzScale + (k - 1),
     rt_mean |-> None,
     Family |-> FAM_OTHER]

ManySpec(k) ==
    IF k % 3 = 0
    THEN [measured_mz |-> <<69 * MzScale, 119 * MzScale>>, measured_intensity |-> <<3, 4>>]
    ELSE IF k % 3 = 1
    THEN [measured_mz |-> <<119 * MzScale>>, measured_intensity |-> <<1>>]
    ELSE [measured_mz |-> <<69 * MzScale, 119 * MzScale>>, measured_intensity |-> <<4, 1>>]

\* stores without a summary view that hold the first n of them
ManyStores ==
    {[rows |-> [i \in 1..n |-> ManyCompound(i)],
      specs |-> [c \in {10 + i : i \in 1..n} |-> <<ManySpec(c - 10)>>]]
     @@ sch : n \in 0..MaxMany, sch \in {x \in Schemas : ~x.has_summary /\ x.specs_ok}}

ManyInit ==
    /\ store \in ManyStores
    /\ library = NotLoaded
    /\ call = NoCall
    /\ unknown_file = File(FALSE, "missing", <<>>)
    /\ saver = [p \in Callers |-> Idle]
    /\ history = NoHistory(unknown_file)

ManySpecification == ManyInit /\ [][Next]_vars

\* --------------------------------------------- the identifier on its own
\* records UNKNOWN_FILE holds when save_unknown_feature reads it
MaxRecords == 10000

\* idx = len(unknowns) + 1 and new_id = f"UNK_PFAS_{idx:04d}" of
\* save_unknown_feature, for a file of `count` records
AssignId ==
    /\ call = NoCall
    /\ \E count \in 0..MaxRecords :
          call' = [op |-> "new_id", count |-> count, ret |-> new_id(count + 1)]
    /\ UNCHANGED <<store, library>>
    /\ UNCHANGED unknown_vars

IdInit == FingerprintInit

IdNext ==
    \/ AssignId
    \/ EndRequest

IdSpec == IdInit /\ [][IdNext]_vars

\* ------------------------------------------- the page's spectrum parser
\* lines of a pasted text, and tokens of a line
MaxLines == 2
MaxTokens == 3

\* a token float() accepts, with its value, and one it rejects
Number(x) == [numeric |-> TRUE, value |-> x]
NotANumber == [numeric |-> FALSE]

Tokens == {Number(69 * MzScale), Number(3), NotANumber}

\* one pass of the loop body over `parts = line.strip().split()`: the two
\* appends run in order inside one try, and `except: pass` ends the line
ParseLine(lists, parts) ==
    IF Len(parts) >= 2
    THEN IF ~parts[1].numeric THEN lists
         ELSE IF ~parts[2].numeric
         THEN [mzs |-> Append(lists.mzs, parts[1].value), ints |-> lists.ints]
         ELSE [mzs |-> Append(lists.mzs, parts[1].value),
               ints |-> Append(lists.ints, parts[2].value)]
    ELSE lists

\* the parse of the "Analyze with Spectrum" button: mzs and ints after the
\* loop over spec_text.split('\n')
RECURSIVE ParseSpectrumText(_)
ParseSpectrumText(lines) ==
    IF lines = <<>> THEN [mzs |-> <<>>, ints |-> <<>>]
    ELSE ParseLine(ParseSpectrumText(SubSeq(lines, 1, Len(lines) - 1)),
                   lines[Len(lines)])

\* the button is pressed with a pasted text
ParseSpectrum ==
    /\ call = NoCall
    /\ \E spec_text \in SeqsUpTo(SeqsUpTo(Tokens, MaxTokens), MaxLines) :
          call' = [op |-> "parse_spectrum", spec_text |-> spec_text,
                   ret |-> ParseSpectrumText(spec_text)]
    /\ UNCHANGED <<store, library>>
    /\ UNCHANGED unknown_vars

ParseInit == FingerprintInit

ParseNext ==
    \/ ParseSpectrum
    \/ EndRequest

ParseSpec == ParseInit /\ [][ParseNext]_vars

\* ================================================================ claims
\* the state holds a returned filter_candidates_fast call
FilterReturned == call.op = "filter_candidates_fast"

\* the state holds an analyze_peak call, and one that returned a result
Analyzed == call.op = "analyze_peak"
AnalyzeReturned == Analyzed /\ ~call.ret.raised

\* the mass rule as the specification words it
InTolerance(theoreticalMass, inputMass, tolerancePpm) ==
    Abs(theoreticalMass - inputMass) * PpmDen <= theoreticalMass * tolerancePpm

\* position of a compound in the library
LibPos(id) == CHOOSE j \in 1..Len(library.rows) : library.rows[j].pfas_id = id

\* similarity of the top-ranked returned candidate, 0.0 without candidates
BestSimilarity ==
    IF call.ret.candidates.rows = <<>> THEN 0
    ELSE call.ret.candidates.rows[1].similarity

\* C1: with no retention time supplied, filter_candidates_fast returns
\* exactly the library compounds with |theoreticalMass - inputMass| <=
\* theoreticalMass * tolerancePpm * 1e-6 (bound included), each at most
\* once and in library order.
C1_MassRuleExact ==
    (FilterReturned /\ call.input_rt = None) =>
        LET out == call.ret.rows IN
        /\ \A i \in 1..Len(out) :
              /\ InTolerance(out[i].precursor_mz, call.input_mz, call.mz_tolerance)
              /\ \E j \in 1..Len(library.rows) : library.rows[j] = out[i]
        /\ \A j \in 1..Len(library.rows) :
              InTolerance(library.rows[j].precursor_mz, call.input_mz, call.mz_tolerance)
                  => \E i \in 1..Len(out) : out[i] = library.rows[j]
        /\ \A i, k \in 1..Len(out) :
              i < k => LibPos(out[i].pfas_id) < LibPos(out[k].pfas_id)

\* a filter call without retention time that keeps two compounds, one of
\* them exactly on the bound, and leaves another library compound out
C1_Witness ==
    /\ FilterReturned /\ call.input_rt = None
    /\ Len(call.ret.rows) >= 2
    /\ Len(call.ret.rows) < Len(library.rows)
    /\ \E i \in 1..Len(call.ret.rows) :
          Abs(call.ret.rows[i].precursor_mz - call.input_mz) * PpmDen
              = call.ret.rows[i].precursor_mz * call.mz_tolerance

\* C2: with inputRt supplied, a mass-passing compound is kept iff its mean
\* retention time is absent or lies in [inputRt - rtMargin, inputRt +
\* rtMargin]; without inputRt no compound is excluded for its retention time.
C2_RetentionTimeRule ==
    FilterReturned =>
        \A j \in 1..Len(library.rows) :
            LET r == library.rows[j]
                kept == \E i \in 1..Len(call.ret.rows) : call.ret.rows[i] = r
            IN InTolerance(r.precursor_mz, call.input_mz, call.mz_tolerance) =>
                  (kept <=>
                      \/ call.input_rt = None
                      \/ r.rt_mean = None
                      \/ /\ Val(call.input_rt) - call.rt_margin <= Val(r.rt_mean)
                         /\ Val(r.rt_mean) <= Val(call.input_rt) + call.rt_margin)

\* a filter call with a retention time where, among the mass-passing
\* compounds, one without retention time is kept, one on the upper end of
\* the window is kept, and one outside the window is dropped
C2_Witness ==
    /\ FilterReturned /\ call.input_rt # None
    /\ \E i \in 1..Len(call.ret.rows) : call.ret.rows[i].rt_mean = None
    /\ \E i \in 1..Len(call.ret.rows) :
          /\ call.ret.rows[i].rt_mean # None
          /\ Val(call.ret.rows[i].rt_mean) = Val(call.input_rt) + call.rt_margin
    /\ \E j \in 1..Len(library.rows) :
          /\ InTolerance(library.rows[j].precursor_mz, call.input_mz, call.mz_tolerance)
          /\ library.rows[j].rt_mean # None
          /\ Val(library.rows[j].rt_mean) > Val(call.input_rt) + call.rt_margin
          /\ \A i \in 1..Len(call.ret.rows) : call.ret.rows[i] # library.rows[j]

C4_DoubleThreshold ==
    (AnalyzeReturned /\ Truthy(call.spectrum_mz)) =>
        IF BestSimilarity * Tenths < DOWNGRADE_THRESHOLD * SimScale
        THEN call.ret.predicted_class = "Unknown"
        ELSE /\ call.ret.predicted_class = predict_family_rule_based(call.ret.candidates)[1]
             /\ call.ret.predicted_class \in FamiliesOf(call.ret.candidates.rows)

\* a spectrum query with best similarity in [0.5, 0.8): flagged unknown,
\* yet the voted family is reported
C4_Witness ==
    /\ AnalyzeReturned /\ Truthy(call.spectrum_mz)
    /\ BestSimilarity * Tenths >= DOWNGRADE_THRESHOLD * SimScale
    /\ BestSimilarity * Tenths < COSINE_SIMILARITY_THRESHOLD * SimScale
    /\ call.ret.is_unknown
    /\ call.ret.predicted_class # "Unknown"

\* C5: a query without fragment spectrum returns "No Mass Match" with
\* is_unknown when no candidate survives the filter, "Putative Mass Match"
\* without is_unknown otherwise, and never "Confirmed Match".
C5_NoSpectrumTagging ==
    (Analyzed /\ ~Truthy(call.spectrum_mz)) =>
        LET survivors == filter_candidates_fast(call.library_df, call.input_mz,
                             call.input_rt, call.mz_tolerance, call.rt_margin)
        IN /\ ~call.ret.raised
           /\ call.ret.status_label # "Confirmed Match"
           /\ IF survivors.rows = <<>>
              THEN call.ret.is_unknown /\ call.ret.status_label = "No Mass Match"
              ELSE ~call.ret.is_unknown /\ call.ret.status_label = "Putative Mass Match"

\* a query with an empty spectrum and with candidates: putative only
C5_Witness ==
    /\ Analyzed /\ call.spectrum_mz = Some(<<>>)
    /\ ~call.ret.raised
    /\ call.ret.candidates.rows # <<>>
    /\ call.ret.status_label = "Putative Mass Match"

\* C6: for a query without a spectrum that has candidates (no top candidate
\* has nonzero similarity), the predicted family is the most frequent
\* family among the top candidates and the confidence is its count divided
\* by the number of top candidates.
C6_MassOnlyVote ==
    (AnalyzeReturned /\ ~Truthy(call.spectrum_mz) /\ call.ret.candidates.rows # <<>>) =>
        LET rows == call.ret.candidates.rows
            fam == call.ret.predicted_class
        IN /\ fam \in FamiliesOf(rows)
           /\ \A f \in FamiliesOf(rows) : FamCount(rows, f) <= FamCount(rows, fam)
           /\ FracEq(call.ret.class_confidence, Frac(FamCount(rows, fam), Len(rows)))

\* the state holds a returned predict_family_rule_based call
Voted == call.op = "predict_family_rule_based"

\* sum of the similarity column of a frame's rows
TotalSim(rows) ==
    SumOver([i \in 1..Len(rows) |-> rows[i].similarity], 1..Len(rows))

\* C7: over candidates of which one has nonzero similarity, the vote returns
\* the family with the largest summed similarity and the confidence
\* sum / total, which lies in (0, 1]; over no candidates it returns
\* ("Unknown", 0.0).
C7_WeightedVote ==
    Voted =>
        LET rows == call.candidates.rows
            fam == call.ret[1]
            conf == call.ret[2]
        IN /\ rows = <<>> => (fam = "Unknown" /\ conf = Zero)
           /\ ("similarity" \in call.candidates.columns
                 /\ \E i \in 1..Len(rows) : rows[i].similarity # 0) =>
                 /\ fam \in FamiliesOf(rows)
                 /\ \A f \in FamiliesOf(rows) : SimSum(rows, f) <= SimSum(rows, fam)
                 /\ FracEq(conf, Frac(SimSum(rows, fam), TotalSim(rows)))
                 /\ FracLess(Zero, conf)
                 /\ ~FracLess(Frac(1, 1), conf)

\* a vote where two families have nonzero sums and the winning family is
\* not the family of the top-ranked candidate
C7_Witness ==
    /\ Voted
    /\ "similarity" \in call.candidates.columns
    /\ call.candidates.rows # <<>>
    /\ call.ret[1] # "Unknown"
    /\ call.ret[1] # call.candidates.rows[1].Family
    /\ SimSum(call.candidates.rows, call.candidates.rows[1].Family) > 0
    /\ FracLess(call.ret[2], Frac(1, 1))

\* adjacent returned candidates
Adjacent == {i \in 1..Len(call.ret.candidates.rows) : i + 1 <= Len(call.ret.candidates.rows)}

\* C8: for a query with a fragment spectrum the returned candidates are
\* ordered by similarity descending, equal similarities by mass error
\* ascending.
C8_SpectrumRanking ==
    (AnalyzeReturned /\ Truthy(call.spectrum_mz)) =>
        \A i \in Adjacent :
            LET a == call.ret.candidates.rows[i]
                b == call.ret.candidates.rows[i + 1]
            IN \/ a.similarity > b.similarity
               \/ /\ a.similarity = b.similarity
                  /\ ~FracLess(b.mz_error_ppm, a.mz_error_ppm)

\* a spectrum query with both lists given whose result holds a tie in
\* similarity that the mass error decides against the library order
C8_Witness ==
    /\ AnalyzeReturned
    /\ ranks_by_spectrum(call.spectrum_mz, call.spectrum_int)
    /\ \E i \in Adjacent :
          LET a == call.ret.candidates.rows[i]
              b == call.ret.candidates.rows[i + 1]
          IN /\ a.similarity = b.similarity
             /\ FracLess(a.mz_error_ppm, b.mz_error_ppm)
             /\ \E j, k \in 1..Len(call.library_df.rows) :
                   /\ j < k
                   /\ call.library_df.rows[j].pfas_id = b.pfas_id
                   /\ call.library_df.rows[k].pfas_id = a.pfas_id

\* C9: for a query without fragment spectrum every returned candidate has
\* similarity 0.0 and mass error |theoreticalMass - inputMass| /
\* theoreticalMass * 1e6, and the candidates are ordered by mass error
\* ascending.
C9_MassOnlyRanking ==
    (Analyzed /\ ~Truthy(call.spectrum_mz)) =>
        /\ ~call.ret.raised
        /\ \A i \in 1..Len(call.ret.candidates.rows) :
              LET c == call.ret.candidates.rows[i] IN
              /\ c.similarity = 0
              /\ FracEq(c.mz_error_ppm,
                        Frac(Abs(c.precursor_mz - call.input_mz), c.precursor_mz))
        /\ \A i \in Adjacent :
              ~FracLess(call.ret.candidates.rows[i + 1].mz_error_ppm,
                        call.ret.candidates.rows[i].mz_error_ppm)

\* a query without spectrum with three candidates of different mass error
\* that the library holds in another order
C9_Witness ==
    /\ Analyzed /\ call.spectrum_mz = None /\ ~call.ret.raised
    /\ Len(call.ret.candidates.rows) >= 3
    /\ \A i \in Adjacent :
          FracLess(call.ret.candidates.rows[i].mz_error_ppm,
                   call.ret.candidates.rows[i + 1].mz_error_ppm)
    /\ \E i \in Adjacent :
          \E j, k \in 1..Len(call.library_df.rows) :
              /\ j < k
              /\ call.library_df.rows[j].pfas_id = call.ret.candidates.rows[i + 1].pfas_id
              /\ call.library_df.rows[k].pfas_id = call.ret.candidates.rows[i].pfas_id

\* C10: for a query with a non-empty spectrum, analyze_peak returns and
\* gives similarity 0.0 to every surviving candidate without fingerprint,
\* whether the loader left None or the missing-value marker in the cell.
C10_NoFingerprintScoresZero ==
    (/\ Analyzed
     /\ ranks_by_spectrum(call.spectrum_mz, call.spectrum_int)
     /\ Len(Val(call.spectrum_mz)) = Len(Val(call.spectrum_int))) =>
        LET survivors == filter_candidates_fast(call.library_df, call.input_mz,
                             call.input_rt, call.mz_tolerance, call.rt_margin).rows
        IN (\E i \in 1..Len(survivors) : survivors[i].fingerprint \in {FpNone, FpNaN}) =>
              /\ ~call.ret.raised
              /\ \A i \in 1..Len(call.ret.candidates.rows) :
                    call.ret.candidates.rows[i].fingerprint \in {FpNone, FpNaN}
                        => call.ret.candidates.rows[i].similarity = 0

\* the mass error num/den * 1e6 ppm lies in [lo/10, hi/10] ppm
PpmWithin(err, lo, hi) ==
    /\ lo * err.den <= err.num * PpmDen * Tenths
    /\ err.num * PpmDen * Tenths <= hi * err.den

\* an analyze_peak call for the query mass 413.97 without retention time
\* and spectrum, on a library that holds the entry of mass 413.9765
ScenarioACall(tol) ==
    /\ Analyzed
    /\ call.input_mz = PFOA_QUERY_MZ /\ call.mz_tolerance = tol
    /\ call.input_rt = None /\ call.spectrum_mz = None
    /\ \E j \in 1..Len(call.library_df.rows) :
          call.library_df.rows[j].precursor_mz = PFOA_MZ

\* the returned candidates of mass 413.9765
ScenarioAHits ==
    {i \in 1..Len(call.ret.candidates.rows) :
        call.ret.candidates.rows[i].precursor_mz = PFOA_MZ}

\* C11 as stated: for query mass 413.97 and tolerance 10 ppm, the entry of
\* theoretical mass 413.9765 is among the candidates and its computed mass
\* error is 1.57 ppm within 0.1 ppm.
C11_ScenarioA ==
    ScenarioACall(2 * DEFAULT_MZ_TOLERANCE_PPM) =>
        /\ ~call.ret.raised
        /\ ScenarioAHits # {}
        /\ \A i \in ScenarioAHits :
              PpmWithin(call.ret.candidates.rows[i].mz_error_ppm, 147, 167)

\* C11 amended: for query mass 413.97 the entry of theoretical mass
\* 413.9765 is not among the candidates at tolerance 10 ppm and is among
\* them at 20 ppm, and whenever it is a candidate its computed mass error
\* is 15.70 ppm within 0.1 ppm.
C11_ScenarioA_Amended ==
    \A tol \in Tolerances :
        ScenarioACall(tol) =>
            /\ ~call.ret.raised
            /\ tol = 2 * DEFAULT_MZ_TOLERANCE_PPM => ScenarioAHits = {}
            /\ tol = 4 * DEFAULT_MZ_TOLERANCE_PPM => ScenarioAHits # {}
            /\ \A i \in ScenarioAHits :
                  PpmWithin(call.ret.candidates.rows[i].mz_error_ppm, 156, 158)

\* the query at 20 ppm, answered with the entry and its neighbour, the
\* neighbour (4.8 ppm) ranked first
C11_Witness ==
    /\ ScenarioACall(4 * DEFAULT_MZ_TOLERANCE_PPM)
    /\ ~call.ret.raised
    /\ Len(call.ret.candidates.rows) = 2
    /\ ScenarioAHits = {2}

\* ------------------------------------------------ unknown store claims
\* no session is inside save_unknown_feature
Quiescent == \A p \in Callers : saver[p].pc = "idle"

\* the run started from a missing file, an empty text or an empty list
StartedEmpty ==
    \/ history.start.kind \in {"missing", "corrupt"}
    \/ history.start.kind = "array" /\ history.start.items = <<>>

\* k written with four decimal digits (k < 10000)
FourDigits(k) ==
    <<Digit[(k \div 1000) + 1], Digit[((k \div 100) % 10) + 1],
      Digit[((k \div 10) % 10) + 1], Digit[(k % 10) + 1]>>

\* what load() returns in this state
Loaded == load_unknowns_raw(unknown_file).items

\* C12: starting from an empty or missing store, after n save calls that
\* did not overlap the k-th call returned 'UNK_PFAS_' followed by k
\* zero-padded to four digits, the identifiers in the store are pairwise
\* distinct, and load() returns exactly n records, in save order, whose id
\* is the returned one and whose input mass and retention time are those
\* passed to the k-th save.
C12_SequentialIds ==
    (StartedEmpty /\ ~history.overlap /\ Quiescent) =>
        LET n == Len(history.saves) IN
        /\ \A k \in 1..n : history.saves[k].id = UNK_PREFIX \o FourDigits(k)
        /\ Len(Loaded) = n
        /\ \A i, k \in 1..Len(Loaded) : i # k => Loaded[i].id # Loaded[k].id
        /\ \A k \in 1..Len(Loaded) :
              /\ Loaded[k].id = history.saves[k].id
              /\ Loaded[k].input_mz = history.saves[k].mz
              /\ Loaded[k].input_rt = history.saves[k].rt

\* two saves one after the other on a store whose directory did not
\* exist, the first with mass 200.0 and retention time 1.2, then a load
\* that shows both records
C12_Witness ==
    /\ history.start = File(FALSE, "missing", <<>>)
    /\ ~history.overlap /\ Quiescent
    /\ Len(history.saves) = 2
    /\ history.saves[1].mz = Some(200 * MzScale)
    /\ history.saves[1].rt = Some(RtScale + 2)
    /\ history.saves[2].rt = None
    /\ call.op = "load_unknowns_raw"
    /\ Len(call.ret.items) = 2

C14_LoadTolerant ==
    [][(call.op # "load_unknowns_raw" /\ call'.op = "load_unknowns_raw") =>
          /\ unknown_file' = unknown_file
          /\ unknown_file.kind \in {"missing", "corrupt"} =>
                call'.ret = PyList(<<>>)
          /\ unknown_file.kind = "array" =>
                /\ call'.ret.type = "list"
                /\ json_dump(call'.ret.items) = unknown_file.items]_vars

\* a load that met the file while a save had opened it for writing (the
\* records it held are not visible), and returned the empty list
C14_Witness ==
    /\ call.op = "load_unknowns_raw"
    /\ history.start.kind = "array" /\ history.start.items # <<>>
    /\ unknown_file.kind = "corrupt"
    /\ \E p \in Callers : saver[p].pc = "open"
    /\ call.ret = PyList(<<>>)

\* C15: when two save calls have both read the same list R before either
\* wrote (both returned the same identifier) and both have completed, the
\* store holds fewer records than R plus the two saves: it is R followed
\* by the record of the last writer alone, or a text that does not parse.
C15_LostUpdate ==
    (/\ Quiescent
     /\ history.start.kind = "array"
     /\ history.started = 2 /\ Len(history.saves) = 2
     /\ history.saves[1].id = history.saves[2].id) =>
        LET R == history.start.items IN
        /\ Len(Loaded) < Len(R) + 2
        /\ unknown_file.kind = "array" =>
              /\ Len(unknown_file.items) = Len(R) + 1
              /\ SubSeq(unknown_file.items, 1, Len(R)) = R
              /\ unknown_file.items[Len(R) + 1].input_mz
                     = DumpNum(history.saves[2].mz)
              /\ unknown_file.items[Len(R) + 1].id = JStr(history.saves[2].id)

\* two completed saves of different payloads that both read the one old
\* record: the file holds the old record and the second writer's only
C15_Witness ==
    /\ Quiescent
    /\ history.start = File(TRUE, "array", json_dump(Take(OldRecords, 1)))
    /\ history.started = 2 /\ Len(history.saves) = 2
    /\ history.saves[1].id = history.saves[2].id
    /\ history.saves[1].mz # history.saves[2].mz
    /\ unknown_file.kind = "array"
    /\ Len(unknown_file.items) = 2
    /\ unknown_file.items[2].input_mz = DumpNum(history.saves[2].mz)

\* ---------------------------------------------------- fingerprint claims
\* the state holds a generate_fingerprint_vector call
Generated == call.op = "generate_fingerprint_vector"

\* the elements of the returned vector are vals[b] / den on the bins of
\* vals and 0 elsewhere: its maximum is 1.0, it is all-zero, no element
\* is negative
MaxIsOne(fp) == fp.den > 0 /\ MaxVal(fp.vals) = fp.den
AllZero(fp) == \A b \in DOMAIN fp.vals : fp.vals[b] = 0
NonNegative(fp) == fp.den > 0 /\ \A b \in DOMAIN fp.vals : fp.vals[b] >= 0

\* a spectrum: as many intensities as masses, none of them negative
IsSpectrum(mz_list, intensity_list) ==
    /\ Len(mz_list) = Len(intensity_list)
    /\ \A i \in 1..Len(intensity_list) : intensity_list[i] >= 0

QueryFp ==
    generate_fingerprint_vector(Val(call.spectrum_mz), Val(call.spectrum_int))

\* a stored vector, and one with a nonzero element
IsVector(fp) == fp \notin {FpNone, FpNaN}
NonzeroVector(fp) == IsVector(fp) /\ \E b \in DOMAIN fp.vals : fp.vals[b] # 0

\* the all-zero vector of the grid, and the vector of length 0
ZeroVector == Normalize([len |-> NumBins(MZ_MIN, MZ_MAX, BIN_SIZE), vals |-> <<>>])
EmptyVector == Normalize([len |-> 0, vals |-> <<>>])

\* the stored vectors of the library
LibraryVectors ==
    {library.rows[i].fingerprint : i \in 1..Len(library.rows)} \ {FpNone, FpNaN}

\* the survivors of the filter whose stored vector is the query's
IdenticalSurvivors ==
    LET survivors == filter_candidates_fast(call.library_df, call.input_mz,
                         call.input_rt, call.mz_tolerance, call.rt_margin).rows
    IN {survivors[i].pfas_id : i \in {j \in 1..Len(survivors) :
            /\ NonzeroVector(survivors[j].fingerprint)
            /\ survivors[j].fingerprint = QueryFp}}

\* C17: calculate_similarity(v, v) is 1.0 for every nonzero vector v and
\* calculate_similarity(a, b) is 0.0 when a vector has zero norm or zero
\* length; a query whose binned fingerprint is identical to the stored
\* nonzero fingerprint of a candidate gets similarity 1.0 for it, and the
\* result is "Confirmed Match" and not unknown.
C17_CosineIdentities ==
    /\ library # NotLoaded =>
          \A v \in LibraryVectors :
              /\ NonzeroVector(v) => calculate_similarity(v, v) = Returned(SimScale)
              /\ calculate_similarity(v, ZeroVector) = Returned(0)
              /\ calculate_similarity(ZeroVector, v) = Returned(0)
              /\ calculate_similarity(v, EmptyVector) = Returned(0)
              /\ calculate_similarity(EmptyVector, v) = Returned(0)
    /\ (/\ Analyzed
        /\ ranks_by_spectrum(call.spectrum_mz, call.spectrum_int)
        /\ Len(Val(call.spectrum_mz)) = Len(Val(call.spectrum_int))
        /\ IdenticalSurvivors # {}) =>
            /\ ~call.ret.raised
            /\ \A id \in IdenticalSurvivors :
                  \E k \in 1..Len(call.ret.candidates.rows) :
                      /\ call.ret.candidates.rows[k].pfas_id = id
                      /\ call.ret.candidates.rows[k].similarity = SimScale
            /\ call.ret.status_label = "Confirmed Match"
            /\ ~call.ret.is_unknown

\* C18: analyze_peak leaves the library it was given unchanged, an empty
\* library included: the same columns and the same rows with the same
\* values after the call as before it.
C18_LibraryReadOnly ==
    Analyzed =>
        /\ library.columns = call.library_df.columns
        /\ library.rows = call.library_df.rows

\* the compounds (pfas_id) the candidate filter returns for one query
CandidateSet(library_df, input_mz, input_rt, mz_tolerance_ppm) ==
    LET ret == filter_candidates_fast(library_df, input_mz, input_rt,
                                      mz_tolerance_ppm, DEFAULT_RT_MARGIN)
    IN {ret.rows[i].pfas_id : i \in 1..Len(ret.rows)}

\* a load_library_data call that returned a snapshot, made when an earlier
\* call had already returned one from the same store
LoadedTwice ==
    /\ call.op = "load_library_data"
    /\ ~IsRaised(call.ret)
    /\ call.previous # NotLoaded

\* C19: two load_library_data calls against the unchanged store yield
\* snapshots on which the candidate filter returns the same set of
\* compounds for every query (mass, retention time, tolerance).
C19_LoaderIdempotent ==
    LoadedTwice =>
        \A mz \in QueryMz(store), rt \in InputRt, tol \in Tolerances :
            CandidateSet(call.previous, mz, rt, tol) = CandidateSet(library, mz, rt, tol)

\* the two snapshots differ in the fingerprint of a compound that a query
\* selects from both
C19_Witness ==
    /\ LoadedTwice
    /\ \E mz \in QueryMz(store), rt \in InputRt, tol \in Tolerances :
          \E i \in 1..Len(library.rows) :
             /\ library.rows[i].pfas_id \in CandidateSet(library, mz, rt, tol)
             /\ library.rows[i].pfas_id \in CandidateSet(call.previous, mz, rt, tol)
             /\ library.rows[i].fingerprint # call.previous.rows[i].fingerprint

\* a load_library_data call that returned a snapshot
LoadReturned == call.op = "load_library_data" /\ ~IsRaised(call.ret)

\* the store provides a family for the compound of its i-th row: the view
\* that is read has a Family column and the row's cell is not NULL
ProvidesFamily(i) ==
    /\ store.has_summary
    /\ "Family" \in store.summary_cols
    /\ store.rows[i].Family # FamilyNull

\* C20: every compound of a loaded library carries the family the store
\* provides for that compound, and otherwise the one derived from its
\* name by the keyword rules ("Other" for no match and for no name).
C20_FamilyLabel ==
    LoadReturned =>
        \A i \in 1..Len(library.rows) :
            library.rows[i].Family =
                IF ProvidesFamily(i) THEN store.rows[i].Family
                ELSE get_compound_family(store.rows[i].name)

\* ------------------------------- identifier, top-N and result claims
\* the pattern UNK_PFAS_####: the prefix and exactly four decimal digits
MatchesIdPattern(id) ==
    /\ Len(id) = Len(UNK_PREFIX) + IdWidth
    /\ SubSeq(id, 1, Len(UNK_PREFIX)) = UNK_PREFIX
    /\ \A i \in (Len(UNK_PREFIX) + 1)..Len(id) :
          \E d \in 1..Len(Digit) : id[i] = Digit[d]

\* C21: the identifier save assigns matches UNK_PFAS_#### for every
\* number of records already in the store, 9999 and more included.
C21_IdPattern ==
    call.op = "new_id" => MatchesIdPattern(call.ret)

\* the sorted surviving candidates of the analyze_peak call in the state
Survivors ==
    Rank(call.library_df, call.input_mz, call.input_rt, call.spectrum_mz,
         call.spectrum_int, call.mz_tolerance, call.rt_margin, FALSE).rows

\* C22: analyze_peak returns the first min(10, n) of its n sorted surviving
\* candidates, never more than 10 and always a prefix of the ranking, and
\* the family vote and the unknown tagging are those of that same sequence.
C22_TopN ==
    AnalyzeReturned =>
        LET top == call.ret.candidates
            n == Len(Survivors)
        IN /\ Len(top.rows) <= 10
           /\ Len(top.rows) = Min2(10, n)
           /\ top.rows = SubSeq(Survivors, 1, Len(top.rows))
           /\ call.ret.class_confidence = predict_family_rule_based(top)[2]
           /\ call.ret.predicted_class \in {"Unknown", predict_family_rule_based(top)[1]}
           /\ call.ret.is_unknown =
                 IF spectrum_mode(call.spectrum_mz)
                 THEN below_threshold(IF Empty(top) THEN 0 ELSE top.rows[1].similarity)
                 ELSE Empty(top)

\* a call with more than 10 survivors, one of the omitted with a positive
\* similarity that a vote over all survivors would have counted
C22_Witness ==
    /\ AnalyzeReturned
    /\ Len(Survivors) > 10
    /\ Len(call.ret.candidates.rows) = 10
    /\ Survivors[11].similarity > 0
    /\ call.ret.predicted_class # "Unknown"

\* bin_spectrum_fingerprint returned a frame for lists of equal length
Binned == call.op = "generate_fingerprint_vector" /\ ~IsRaised(call.df_fp)

\* the pairs whose mass lies in the closed range [massMin, massMax]
InRange == {i \in 1..Len(call.mz_list) :
               call.mz_list[i] >= MZ_MIN /\ call.mz_list[i] <= MZ_MAX}

\* floor((mass - massMin) / binWidth), counted from 0
BinIndex(mass) == (mass - MZ_MIN) \div BIN_SIZE

\* the intensity column at the bin of index k (counted from 0)
BinValue(k) ==
    IF (k + 1) \in DOMAIN call.df_fp.vals THEN call.df_fp.vals[k + 1] ELSE 0

\* C23: every pair with a mass in [massMin, massMax], both ends included,
\* adds its intensity to the bin floor((mass - massMin) / binWidth), equal
\* bins sum, pairs outside add nothing; the binned vector sums to the sum
\* of the in-range intensities.
C23_Binning ==
    Binned =>
        /\ \A i \in InRange :
              BinValue(BinIndex(call.mz_list[i])) =
                  SumOver(call.intensity_list,
                          {j \in InRange : BinIndex(call.mz_list[j]) = BinIndex(call.mz_list[i])})
        /\ SumOver(call.df_fp.vals, DOMAIN call.df_fp.vals) =
              SumOver(call.intensity_list, InRange)

\* a line that is not malformed: two tokens or more, the first two numeric
WellFormed(parts) ==
    Len(parts) >= 2 /\ parts[1].numeric /\ parts[2].numeric

\* the well-formed lines of the parsed text, in order
GoodLines == SelectSeq(call.spec_text, WellFormed)

\* C24: a malformed line adds to neither list and every other line adds
\* one mass and one intensity, so the two parsed lists have equal length
\* and stay aligned pair by pair.
C24_ParallelLists ==
    call.op = "parse_spectrum" =>
        /\ Len(call.ret.mzs) = Len(call.ret.ints)
        /\ call.ret.mzs = [i \in 1..Len(GoodLines) |-> GoodLines[i][1].value]
        /\ call.ret.ints = [i \in 1..Len(GoodLines) |-> GoodLines[i][2].value]

\* C25: in every result of analyze_peak, is_unknown is true exactly when
\* the status is "Unknown Structure" or "No Mass Match" and false exactly
\* when it is "Confirmed Match" or "Putative Mass Match", and a result
\* that is not unknown has at least one candidate.
C25_FlagsConsistent ==
    AnalyzeReturned =>
        /\ call.ret.status_label \in {"Unknown Structure", "No Mass Match",
                                      "Confirmed Match", "Putative Mass Match"}
        /\ call.ret.is_unknown <=>
              call.ret.status_label \in {"Unknown Structure", "No Mass Match"}
        /\ ~call.ret.is_unknown => call.ret.candidates.rows # <<>>

\* a mass-only call that found nothing, reported as unknown
C25_Witness ==
    /\ AnalyzeReturned
    /\ call.library_df.rows # <<>>
    /\ call.ret.candidates.rows = <<>>
    /\ call.ret.status_label = "No Mass Match"
    /\ call.ret.is_unknown

\* C26: every result of analyze_peak whose predicted family is "Unknown"
\* has class confidence 0.0, also when the family was overridden because
\* the best similarity is below 0.5.
C26_UnknownZeroConfidence ==
    (AnalyzeReturned /\ call.ret.predicted_class = "Unknown") =>
        call.ret.class_confidence.num = 0

\* C27: for every combination of spectrum_mz and spectrum_int, the result
\* carries a label of the spectrum branch ("Unknown Structure" or
\* "Confirmed Match") exactly when the similarities were computed from the
\* query spectrum, and a label of the mass-only branch ("No Mass Match" or
\* "Putative Mass Match") exactly when the ranking was by mass error only.
C27_RankingTaggingAgree ==
    AnalyzeReturned =>
        LET scored == ranks_by_spectrum(call.spectrum_mz, call.spectrum_int) IN
        /\ call.ret.status_label \in {"Unknown Structure", "Confirmed Match"} <=> scored
        /\ call.ret.status_label \in {"No Mass Match", "Putative Mass Match"} <=> ~scored

\* session p returns from save_unknown_feature in this step
SaveReturns(p) == saver[p].pc = "open" /\ saver'[p].pc = "idle"

\* the identifier the step's save returns
ReturnedId == history'.saves[Len(history'.saves)].id

\* the file after the step holds exactly one record, that of the save
\* session p returns from
HoldsOnlyNew(p) ==
    /\ unknown_file'.kind = "array"
    /\ Len(unknown_file'.items) = 1
    /\ unknown_file'.items[1].id = JStr(ReturnedId)
    /\ unknown_file'.items[1].input_mz =
           DumpNum(Get(saver[p].feature_data, "mz", None))
    /\ Len(load_unknowns_raw(unknown_file').items) = 1

\* C28: a save that reads a backing file that exists but does not parse
\* returns UNK_PFAS_0001 and leaves a file that holds exactly one record,
\* the new one; what the file held before is gone for every later load.
C28_SaveOnUnreadable ==
    [][\A p \in Callers :
          (SaveReturns(p) /\ saver[p].file0.kind = "corrupt") =>
              /\ ReturnedId = UNK_PREFIX \o <<"0", "0", "0", "1">>
              /\ HoldsOnlyNew(p)]_vars

\* C28, amended: the save returns UNK_PFAS_0001 in every case, and leaves
\* the one-record file when no other save call overlaps it.
C28_SaveOnUnreadable_Amended ==
    [][\A p \in Callers :
          (SaveReturns(p) /\ saver[p].file0.kind = "corrupt") =>
              /\ ReturnedId = UNK_PREFIX \o <<"0", "0", "0", "1">>
              /\ ~saver[p].overlap => HoldsOnlyNew(p)]_vars

\* the run started from a file that does not parse; one save returned
\* UNK_PFAS_0001 and a load then showed the one record
C28_Witness ==
    /\ history.start = File(TRUE, "corrupt", <<>>)
    /\ Quiescent /\ ~history.overlap
    /\ Len(history.saves) = 1
    /\ history.saves[1].id = new_id(1)
    /\ call.op = "load_unknowns_raw"
    /\ Len(call.ret.items) = 1
    /\ call.ret.items[1].id = new_id(1)

\* sessions p and q have both read the store and neither has written yet
BothRead(p, q) ==
    p # q /\ saver[p].pc = "loaded" /\ saver[q].pc = "loaded"

\* C29: two save calls that both read the store before either writes are
\* given the same identifier (count + 1 of the same snapshot), so returned
\* identifiers can repeat; the identifiers returned by saves that did not
\* overlap are pairwise distinct.
C29_IdCollision ==
    /\ \A p, q \in Callers :
          BothRead(p, q) => saver[p].new_id = saver[q].new_id
    /\ ~history.overlap =>
          \A i, k \in 1..Len(history.saves) :
              i # k => history.saves[i].id # history.saves[k].id

\* C29, amended: two save calls that both read the store before either
\* writes, with no other save writing between the two reads (they read
\* the same content), are given the same identifier, count + 1 of that
\* snapshot; the identifiers returned by saves that did not overlap are
\* pairwise distinct.
C29_IdCollision_Amended ==
    /\ \A p, q \in Callers :
          (BothRead(p, q) /\ saver[p].file0 = saver[q].file0) =>
              /\ saver[p].new_id = saver[q].new_id
              /\ saver[p].new_id =
                     new_id(Len(load_unknowns_raw(saver[p].file0).items) + 1)
    /\ ~history.overlap =>
          \A i, k \in 1..Len(history.saves) :
              i # k => history.saves[i].id # history.saves[k].id

\* two saves that both read the two old records before either wrote have
\* both returned UNK_PFAS_0003
C29_Witness ==
    /\ Quiescent
    /\ history.overlap
    /\ history.start = File(TRUE, "array", json_dump(OldRecords))
    /\ Len(history.saves) = 2
    /\ history.saves[1].id = new_id(3)
    /\ history.saves[2].id = new_id(3)

\* session p's save raises KeyError in this step, while building the record
SaveFails(p) ==
    /\ saver[p].pc = "idle"
    /\ saver'[p].pc = "raised"
    /\ saver'[p].error = "KeyError"

\* C30: a save that raises while it builds the record (a candidate lacks
\* pfas_id, name or similarity) does not write the backing file, and the
\* next successful save is given the identifier the failed call would
\* have received.
C30_FailedSave ==
    [][\A p \in Callers :
          /\ SaveFails(p) => unknown_file' = unknown_file
          /\ (SaveReturns(p) /\ history.failed # None) =>
                ReturnedId = Val(history.failed)]_vars

\* C30, amended: the failed save does not write the backing file; when no
\* save call overlaps another, the next successful save is given the
\* identifier the failed call would have received.
C30_FailedSave_Amended ==
    [][\A p \in Callers :
          /\ SaveFails(p) => unknown_file' = unknown_file
          /\ (SaveReturns(p) /\ history.failed # None /\ ~history.overlap) =>
                ReturnedId = Val(history.failed)]_vars

\* on a file of two records a first save failed and the second call, the
\* next save, returned UNK_PFAS_0003 and wrote the third record
C30_Witness ==
    /\ history.start = File(TRUE, "array", json_dump(OldRecords))
    /\ Quiescent /\ ~history.overlap
    /\ history.started = 2
    /\ Len(history.saves) = 1
    /\ history.saves[1].id = new_id(3)
    /\ unknown_file.kind = "array"
    /\ Len(unknown_file.items) = 3
    /\ unknown_file.items[3].timestamp = JStr(2)
====
